---- MODULE Spec2Model ----
(***************************************************************************)
(* A model of the simulator core of wmm23-ex1: the per-thread execution    *)
(* engine (machine_thread), the memory subsystem contract and its          *)
(* sequentially consistent implementation (machine_memory).                *)
(*                                                                         *)
(* Machine words are u64 in the source; the model keeps the shape of the   *)
(* checked arithmetic and scales the largest word down to MaxWord.         *)
(* Addresses are 0-based as in the source, sequences are 1-based, so the   *)
(* instruction at address a is program[a + 1] and cell a is mem[a + 1].    *)
(***************************************************************************)
EXTENDS Integers, Sequences, FiniteSets, TLC

VARIABLES threads, mem, pending, last, shadow

vars == << threads, mem, pending, last, shadow >>

----------------------------------------------------------------------------
(* Bounds of the model *)

\* the largest machine word (u64::MAX in the source)
MaxWord == 2
\* the longest candidate program handed to ThreadState::new
MaxProgLen == 3

Values == 0 .. MaxWord

----------------------------------------------------------------------------
(* Option and Result *)

None == << >>
Some(x) == << x >>
IsSome(o) == Len(o) = 1
Unwrap(o) == o[1]

Ok(x) == [ok |-> TRUE, val |-> x]
Err(e) == [ok |-> FALSE, err |-> e]

\* FnvHashMap::insert: returns the map with k bound to v
MapInsert(m, k, v) == [x \in (DOMAIN m) \cup {k} |-> IF x = k THEN v ELSE m[x]]
EmptyMap == << >>

----------------------------------------------------------------------------
(* value.rs *)

\* Value::to_address: `self.0 as usize`, a cast that keeps the low bits of
\* the word; usize is as wide as the word on the 64-bit target
ToAddress(v) == v % (MaxWord + 1)

----------------------------------------------------------------------------
(* machine_memory/mod.rs: AccessMode *)

AccessMode == {"SeqCst", "Rel", "Acq", "RelAcq", "Rlx"}

----------------------------------------------------------------------------
(* machine_thread/binop.rs *)

BinOp == {"Add", "Sub", "Mul", "Div"}

\* u64::checked_add and friends: the exact result when it is a word
CheckedAdd(l, r) == IF l + r > MaxWord THEN None ELSE Some(l + r)
CheckedSub(l, r) == IF l < r THEN None ELSE Some(l - r)
CheckedMul(l, r) == IF l * r > MaxWord THEN None ELSE Some(l * r)
CheckedDiv(l, r) == IF r = 0 THEN None ELSE Some(l \div r)

\* Option::ok_or
OkOr(o, e) == IF IsSome(o) THEN Ok(Unwrap(o)) ELSE Err(e)

\* Eval with the wrapping operators in place of the checked ones
EvalWrapping(op, l, r) ==
    CASE op = "Add" -> Ok((l + r) % (MaxWord + 1))
      [] op = "Sub" -> Ok((l - r) % (MaxWord + 1))
      [] op = "Mul" -> Ok((l * r) % (MaxWord + 1))
      [] op = "Div" -> OkOr(CheckedDiv(l, r), [kind |-> "DivisionByZero"])

Eval(op, l, r) ==
    CASE op = "Add" -> OkOr(CheckedAdd(l, r), [kind |-> "Overflow", l |-> l, r |-> r, op |-> op])
      [] op = "Sub" -> OkOr(CheckedSub(l, r), [kind |-> "Underflow", l |-> l, r |-> r, op |-> op])
      [] op = "Mul" -> OkOr(CheckedMul(l, r), [kind |-> "Overflow", l |-> l, r |-> r, op |-> op])
      [] op = "Div" -> OkOr(CheckedDiv(l, r), [kind |-> "DivisionByZero"])

----------------------------------------------------------------------------
(* machine_thread/instruction.rs: Instruction *)

Set(dest, value) == [kind |-> "Set", dest |-> dest, value |-> value]
Bop(dest, binop, src_l, src_r) ==
    [kind |-> "Bop", dest |-> dest, binop |-> binop, src_l |-> src_l, src_r |-> src_r]
Branch(src, label) == [kind |-> "Branch", src |-> src, label |-> label]
Load(mode, addr, dest) == [kind |-> "Load", mode |-> mode, addr |-> addr, dest |-> dest]
Store(mode, addr, src) == [kind |-> "Store", mode |-> mode, addr |-> addr, src |-> src]
Cas(mode, addr, expected, new_value) ==
    [kind |-> "Cas", mode |-> mode, addr |-> addr, expected |-> expected,
     new_value |-> new_value]
Fai(mode, addr, dest) == [kind |-> "Fai", mode |-> mode, addr |-> addr, dest |-> dest]
Fence(mode) == [kind |-> "Fence", mode |-> mode]

\* CodeInstruction { label: Option<Label>, instruction }
CodeInstruction(label, instruction) == [label |-> label, instruction |-> instruction]

\* UsedRegisters that lists the registers Bop reads and forgets the one it
\* writes
UsedRegistersNoDest(i) ==
    CASE i.kind = "Set" -> << i.dest >>
      [] i.kind = "Bop" -> << i.src_l, i.src_r >>
      [] i.kind = "Branch" -> << i.src >>
      [] i.kind = "Load" -> << i.addr, i.dest >>
      [] i.kind = "Store" -> << i.addr, i.src >>
      [] i.kind = "Cas" -> << i.addr, i.expected, i.new_value >>
      [] i.kind = "Fai" -> << i.addr, i.dest >>
      [] i.kind = "Fence" -> << >>

UsedRegisters(i) ==
    CASE i.kind = "Set" -> << i.dest >>
      [] i.kind = "Bop" -> << i.dest, i.src_l, i.src_r >>
      [] i.kind = "Branch" -> << i.src >>
      [] i.kind = "Load" -> << i.addr, i.dest >>
      [] i.kind = "Store" -> << i.addr, i.src >>
      [] i.kind = "Cas" -> << i.addr, i.expected, i.new_value >>
      [] i.kind = "Fai" -> << i.addr, i.dest >>
      [] i.kind = "Fence" -> << >>

----------------------------------------------------------------------------
(* machine_memory/mod.rs: MemoryQuery *)

QStore(addr, value, mode) == [kind |-> "Store", addr |-> addr, value |-> value, mode |-> mode]
QLoad(addr, dest, mode) == [kind |-> "Load", addr |-> addr, dest |-> dest, mode |-> mode]
QCas(addr, expected, new_value, mode) ==
    [kind |-> "Cas", addr |-> addr, expected |-> expected, new_value |-> new_value,
     mode |-> mode]
QFai(addr, dest, mode) == [kind |-> "Fai", addr |-> addr, dest |-> dest, mode |-> mode]
QFence(mode) == [kind |-> "Fence", mode |-> mode]

----------------------------------------------------------------------------
(* machine_thread/mod.rs: ThreadState *)

Unit == << >>

\* a call that may mutate the thread: the state it leaves and what it returns
Ret(st, res) == [st |-> st, res |-> res]

ThreadState(reg_map, label_map, program, pc) ==
    [reg_map |-> reg_map, label_map |-> label_map, program |-> program, pc |-> pc]

\* AddLabel that lets a later label silently replace an earlier one
AddLabelOverwrite(label_map, label, addr) ==
    [label_map |-> MapInsert(label_map, label, addr), res |-> Ok(Unit)]

\* returns the label map and the result; HashMap::insert overwrites the old
\* binding before the duplicate is reported
AddLabel(label_map, label, addr) ==
    IF label \in DOMAIN label_map
    THEN [label_map |-> MapInsert(label_map, label, addr),
          res |-> Err([kind |-> "DuplicateLabel", label |-> label, first |-> addr,
                       second |-> label_map[label]])]
    ELSE [label_map |-> MapInsert(label_map, label, addr), res |-> Ok(Unit)]

\* used_registers.into_iter().for_each(|x| reg_map.insert(x, Value(0)))
RECURSIVE InsertRegisters(_, _, _)
InsertRegisters(reg_map, regs, k) ==
    IF k > Len(regs) THEN reg_map
    ELSE InsertRegisters(MapInsert(reg_map, regs[k], 0), regs, k + 1)

\* the loop of ThreadState::new from address addr on
RECURSIVE NewLoop(_, _, _, _)
NewLoop(program, addr, reg_map, label_map) ==
    IF addr >= Len(program)
    THEN Ok(ThreadState(reg_map, label_map, program, 0))
    ELSE LET code_instruction == program[addr + 1]
             regs == InsertRegisters(reg_map, UsedRegisters(code_instruction.instruction), 1)
         IN  IF IsSome(code_instruction.label)
             THEN LET added == AddLabel(label_map, Unwrap(code_instruction.label), addr)
                  IN  IF added.res.ok
                      THEN NewLoop(program, addr + 1, regs, added.label_map)
                      ELSE Err(added.res.err)
             ELSE NewLoop(program, addr + 1, regs, label_map)

New(program) ==
    IF Len(program) = 0
    THEN Err([kind |-> "EmptyProgram"])
    ELSE NewLoop(program, 0, EmptyMap, EmptyMap)

\* SetRegister by HashMap::insert, which binds a name the map lacks
SetRegisterInsert(st, register, val) ==
    Ret([st EXCEPT !.reg_map = MapInsert(st.reg_map, register, val)], Ok(Unit))

SetRegister(st, register, val) ==
    IF register \in DOMAIN st.reg_map
    THEN Ret([st EXCEPT !.reg_map[register] = val], Ok(Unit))
    ELSE Ret(st, Err([kind |-> "UnboundRegister", register |-> register]))

GetRegister(st, register) ==
    IF register \in DOMAIN st.reg_map
    THEN Ok(st.reg_map[register])
    ELSE Err([kind |-> "UnboundRegister", register |-> register])

\* GotoLabel that takes a name no instruction carries for the current address
GotoLabelLenient(st, label) ==
    IF label \in DOMAIN st.label_map
    THEN Ret([st EXCEPT !.pc = st.label_map[label]], Ok(Unit))
    ELSE Ret(st, Ok(Unit))

GotoLabel(st, label) ==
    IF label \in DOMAIN st.label_map
    THEN Ret([st EXCEPT !.pc = st.label_map[label]], Ok(Unit))
    ELSE Ret(st, Err([kind |-> "UnboundLabel", label |-> label]))

----------------------------------------------------------------------------
(* machine_thread/instruction.rs: Instruction::execute *)

ExecuteSet(i, st) ==
    \* the result of set_register is dropped
    Ret(SetRegister(st, i.dest, i.value).st, Ok(None))

ExecuteBop(i, st) ==
    LET val_l == GetRegister(st, i.src_l)
        val_r == GetRegister(st, i.src_r)
    IN  IF ~val_l.ok THEN Ret(st, val_l)
        ELSE IF ~val_r.ok THEN Ret(st, val_r)
        ELSE LET val == Eval(i.binop, val_l.val, val_r.val)
             IN  IF ~val.ok
                 THEN Ret(st, Err([kind |-> "BinOpError", binop |-> i.binop, err |-> val.err]))
                 ELSE LET set == SetRegister(st, i.dest, val.val)
                      IN  IF ~set.res.ok THEN set ELSE Ret(set.st, Ok(None))

\* ExecuteBranch that jumps when the register is zero
ExecuteBranchInverted(i, st) ==
    LET val == GetRegister(st, i.src)
    IN  IF ~val.ok THEN Ret(st, val)
        ELSE IF val.val = 0
             THEN LET jump == GotoLabel(st, i.label)
                  IN  IF ~jump.res.ok THEN jump ELSE Ret(jump.st, Ok(None))
             ELSE Ret(st, Ok(None))

ExecuteBranch(i, st) ==
    LET val == GetRegister(st, i.src)
    IN  IF ~val.ok THEN Ret(st, val)
        ELSE IF val.val # 0
             THEN LET jump == GotoLabel(st, i.label)
                  IN  IF ~jump.res.ok THEN jump ELSE Ret(jump.st, Ok(None))
             ELSE Ret(st, Ok(None))

ExecuteLoad(i, st) ==
    LET addr == GetRegister(st, i.addr)
    IN  IF ~addr.ok THEN Ret(st, addr)
        ELSE Ret(st, Ok(Some(QLoad(ToAddress(addr.val), i.dest, i.mode))))

ExecuteStore(i, st) ==
    LET addr == GetRegister(st, i.addr)
        value == GetRegister(st, i.src)
    IN  IF ~addr.ok THEN Ret(st, addr)
        ELSE IF ~value.ok THEN Ret(st, value)
        ELSE Ret(st, Ok(Some(QStore(ToAddress(addr.val), value.val, i.mode))))

\* ExecuteCas with expected and new_value read from each other's register
ExecuteCasSwapped(i, st) ==
    LET addr == GetRegister(st, i.addr)
        expected == GetRegister(st, i.new_value)
        new_value == GetRegister(st, i.expected)
    IN  IF ~addr.ok THEN Ret(st, addr)
        ELSE IF ~expected.ok THEN Ret(st, expected)
        ELSE IF ~new_value.ok THEN Ret(st, new_value)
        ELSE Ret(st, Ok(Some(QCas(ToAddress(addr.val), expected.val, new_value.val,
                                  i.mode))))

ExecuteCas(i, st) ==
    LET addr == GetRegister(st, i.addr)
        expected == GetRegister(st, i.expected)
        new_value == GetRegister(st, i.new_value)
    IN  IF ~addr.ok THEN Ret(st, addr)
        ELSE IF ~expected.ok THEN Ret(st, expected)
        ELSE IF ~new_value.ok THEN Ret(st, new_value)
        ELSE Ret(st, Ok(Some(QCas(ToAddress(addr.val), expected.val, new_value.val,
                                  i.mode))))

ExecuteFai(i, st) ==
    LET addr == GetRegister(st, i.addr)
    IN  IF ~addr.ok THEN Ret(st, addr)
        ELSE Ret(st, Ok(Some(QFai(ToAddress(addr.val), i.dest, i.mode))))

ExecuteFence(i, st) == Ret(st, Ok(Some(QFence(i.mode))))

Execute(i, st) ==
    CASE i.kind = "Set" -> ExecuteSet(i, st)
      [] i.kind = "Bop" -> ExecuteBop(i, st)
      [] i.kind = "Branch" -> ExecuteBranch(i, st)
      [] i.kind = "Load" -> ExecuteLoad(i, st)
      [] i.kind = "Store" -> ExecuteStore(i, st)
      [] i.kind = "Cas" -> ExecuteCas(i, st)
      [] i.kind = "Fai" -> ExecuteFai(i, st)
      [] i.kind = "Fence" -> ExecuteFence(i, st)

\* Step that advances pc before it finds no instruction to fetch
StepPastEnd(st) ==
    IF st.pc >= Len(st.program)
    THEN Ret([st EXCEPT !.pc = st.pc + 1],
             Err([kind |-> "PcOutOfRange", address |-> st.pc]))
    ELSE Execute(st.program[st.pc + 1].instruction, [st EXCEPT !.pc = st.pc + 1])

\* Step that treats the end of the program as an instruction without effect
StepSilentEnd(st) ==
    IF st.pc >= Len(st.program)
    THEN Ret([st EXCEPT !.pc = st.pc + 1], Ok(None))
    ELSE Execute(st.program[st.pc + 1].instruction, [st EXCEPT !.pc = st.pc + 1])

\* Step that executes the instruction without moving pc
StepInPlace(st) ==
    IF st.pc >= Len(st.program)
    THEN Ret(st, Err([kind |-> "PcOutOfRange", address |-> st.pc]))
    ELSE Execute(st.program[st.pc + 1].instruction, st)

\* Step that puts pc back on the instruction when its execution fails
StepRollback(st) ==
    IF st.pc >= Len(st.program)
    THEN Ret(st, Err([kind |-> "PcOutOfRange", address |-> st.pc]))
    ELSE LET r == Execute(st.program[st.pc + 1].instruction, [st EXCEPT !.pc = st.pc + 1])
         IN  IF r.res.ok THEN r ELSE Ret(st, r.res)

\* ThreadState::step
Step(st) ==
    IF st.pc >= Len(st.program)
    THEN Ret(st, Err([kind |-> "PcOutOfRange", address |-> st.pc]))
    ELSE Execute(st.program[st.pc + 1].instruction, [st EXCEPT !.pc = st.pc + 1])

----------------------------------------------------------------------------
(* machine_memory/mod.rs: GlobalMemory, Threads *)

\* Fetch that folds the address into the store instead of rejecting it
FetchWrapping(memory, addr) == Ok(addr % Len(memory))

\* GlobalMemory::fetch: Vec::get_mut(addr); the model returns the address
\* as the handle on the cell
Fetch(memory, addr) ==
    IF addr < Len(memory) THEN Ok(addr) ELSE Err([kind |-> "AddressOutOfRange", addr |-> addr])

\* Threads::get_thread_mut
GetThreadMut(ths, tid) ==
    IF tid < Len(ths) THEN Ok(tid) ELSE Err([kind |-> "BadTid", tid |-> tid])

----------------------------------------------------------------------------
(* machine_memory/sc.rs: ScMemory *)

\* what a call of the memory subsystem leaves behind and returns
MemRet(ths, memory, res) == [threads |-> ths, mem |-> memory, res |-> res]

\* an arithmetic-overflow panic of a build with overflow checks
Panic == Err([kind |-> "Panic"])

\* ServeStore that writes the cell after the addressed one
ServeStoreNeighbour(tid, query, ths, memory) ==
    LET target == Fetch(memory, query.addr)
    IN  IF ~target.ok THEN MemRet(ths, memory, target)
        ELSE MemRet(ths,
                    [memory EXCEPT ![((target.val + 1) % Len(memory)) + 1] = query.value],
                    Ok(Unit))

\* ServeStore that checks the address and drops the write
ServeStoreDropped(tid, query, ths, memory) ==
    LET target == Fetch(memory, query.addr)
    IN  IF ~target.ok THEN MemRet(ths, memory, target)
        ELSE MemRet(ths, memory, Ok(Unit))

ServeStore(tid, query, ths, memory) ==
    LET target == Fetch(memory, query.addr)
    IN  IF ~target.ok THEN MemRet(ths, memory, target)
        ELSE MemRet(ths, [memory EXCEPT ![target.val + 1] = query.value], Ok(Unit))

\* ServeLoad that delivers the address in place of the cell's value
ServeLoadAddress(tid, query, ths, memory) ==
    LET val == Fetch(memory, query.addr)
    IN  IF ~val.ok THEN MemRet(ths, memory, val)
        ELSE LET set == SetRegister(ths[tid + 1], query.dest, val.val)
             IN  IF ~set.res.ok
                 THEN MemRet(ths, memory,
                             Err([kind |-> "ThreadStateError", tid |-> tid,
                                  error |-> set.res.err]))
                 ELSE MemRet([ths EXCEPT ![tid + 1] = set.st], memory, Ok(Unit))

ServeLoad(tid, query, ths, memory) ==
    LET val == Fetch(memory, query.addr)
    IN  IF ~val.ok THEN MemRet(ths, memory, val)
        ELSE LET set == SetRegister(ths[tid + 1], query.dest, memory[val.val + 1])
             IN  IF ~set.res.ok
                 THEN MemRet(ths, memory,
                             Err([kind |-> "ThreadStateError", tid |-> tid,
                                  error |-> set.res.err]))
                 ELSE MemRet([ths EXCEPT ![tid + 1] = set.st], memory, Ok(Unit))

\* ServeCas without the early return on a mismatch
ServeCasAlways(tid, query, ths, memory) ==
    LET val == Fetch(memory, query.addr)
    IN  IF ~val.ok THEN MemRet(ths, memory, val)
        ELSE MemRet(ths, [memory EXCEPT ![val.val + 1] = query.new_value], Ok(Unit))

ServeCas(tid, query, ths, memory) ==
    LET val == Fetch(memory, query.addr)
    IN  IF ~val.ok THEN MemRet(ths, memory, val)
        ELSE IF query.expected # memory[val.val + 1]
             THEN MemRet(ths, memory, Ok(Unit))
             ELSE MemRet(ths, [memory EXCEPT ![val.val + 1] = query.new_value], Ok(Unit))

\* ServeFai that delivers the cell after the increment
ServeFaiPreIncrement(tid, query, ths, memory, overflow_checks) ==
    LET val == Fetch(memory, query.addr)
    IN  IF ~val.ok THEN MemRet(ths, memory, val)
        ELSE LET old == memory[val.val + 1]
                 set == SetRegister(ths[tid + 1], query.dest, (old + 1) % (MaxWord + 1))
             IN  IF ~set.res.ok
                 THEN MemRet(ths, memory,
                             Err([kind |-> "ThreadStateError", tid |-> tid,
                                  error |-> set.res.err]))
                 ELSE MemRet([ths EXCEPT ![tid + 1] = set.st],
                             [memory EXCEPT ![val.val + 1] = (old + 1) % (MaxWord + 1)],
                             Ok(Unit))

\* ServeFai that increments the cell ahead of the register write
ServeFaiWriteFirst(tid, query, ths, memory, overflow_checks) ==
    LET val == Fetch(memory, query.addr)
    IN  IF ~val.ok THEN MemRet(ths, memory, val)
        ELSE LET old == memory[val.val + 1]
                 written == [memory EXCEPT ![val.val + 1] = (old + 1) % (MaxWord + 1)]
                 set == SetRegister(ths[tid + 1], query.dest, old)
             IN  IF ~set.res.ok
                 THEN MemRet(ths, written,
                             Err([kind |-> "ThreadStateError", tid |-> tid,
                                  error |-> set.res.err]))
                 ELSE MemRet([ths EXCEPT ![tid + 1] = set.st], written, Ok(Unit))

\* `val.0 += 1` is unchecked u64 arithmetic: at u64::MAX it panics when the
\* build has overflow checks and wraps to 0 when it has not; the register has
\* been written by then
ServeFai(tid, query, ths, memory, overflow_checks) ==
    LET val == Fetch(memory, query.addr)
    IN  IF ~val.ok THEN MemRet(ths, memory, val)
        ELSE LET set == SetRegister(ths[tid + 1], query.dest, memory[val.val + 1])
                 old == memory[val.val + 1]
             IN  IF ~set.res.ok
                 THEN MemRet(ths, memory,
                             Err([kind |-> "ThreadStateError", tid |-> tid,
                                  error |-> set.res.err]))
                 ELSE IF old + 1 > MaxWord /\ overflow_checks
                      THEN MemRet([ths EXCEPT ![tid + 1] = set.st], memory, Panic)
                      ELSE MemRet([ths EXCEPT ![tid + 1] = set.st],
                                  [memory EXCEPT ![val.val + 1] = (old + 1) % (MaxWord + 1)],
                                  Ok(Unit))

\* ServeFence that rejects a fence weaker than acquire or release
ServeFenceOrdered(tid, query, ths, memory) ==
    IF query.mode = "Rlx"
    THEN MemRet(ths, memory, Err([kind |-> "BadTid", tid |-> tid]))
    ELSE MemRet(ths, memory, Ok(Unit))

ServeFence(tid, query, ths, memory) == MemRet(ths, memory, Ok(Unit))

\* ServeThreadRequest that looks the thread up only in the arms that use it
ServeThreadRequestLazyTid(tid, query, ths, memory, overflow_checks) ==
    LET thread_state == GetThreadMut(ths, tid)
    IN  CASE query.kind = "Store" -> ServeStore(tid, query, ths, memory)
          [] query.kind = "Cas" -> ServeCas(tid, query, ths, memory)
          [] query.kind = "Fence" -> ServeFence(tid, query, ths, memory)
          [] query.kind = "Load" ->
               IF ~thread_state.ok THEN MemRet(ths, memory, thread_state)
               ELSE ServeLoad(tid, query, ths, memory)
          [] query.kind = "Fai" ->
               IF ~thread_state.ok THEN MemRet(ths, memory, thread_state)
               ELSE ServeFai(tid, query, ths, memory, overflow_checks)

ServeThreadRequest(tid, query, ths, memory, overflow_checks) ==
    LET thread_state == GetThreadMut(ths, tid)
    IN  IF ~thread_state.ok THEN MemRet(ths, memory, thread_state)
        ELSE CASE query.kind = "Store" -> ServeStore(tid, query, ths, memory)
               [] query.kind = "Load" -> ServeLoad(tid, query, ths, memory)
               [] query.kind = "Cas" -> ServeCas(tid, query, ths, memory)
               [] query.kind = "Fai" -> ServeFai(tid, query, ths, memory, overflow_checks)
               [] query.kind = "Fence" -> ServeFence(tid, query, ths, memory)

\* MemorySubsystem::execute_step for ScMemory: IndependentStep is uninhabited,
\* so every step is a ThreadRequest { tid, query }
ExecuteStep(step, ths, memory, overflow_checks) ==
    ServeThreadRequest(step.tid, step.query, ths, memory, overflow_checks)

ThreadRequest(tid, query) == [tid |-> tid, query |-> query]

----------------------------------------------------------------------------
(* The sequentially consistent reference memory of the specification: the  *)
(* value each cell was last given, in dispatch order.                      *)

ShadowApply(sh, query, res) ==
    IF \/ ~res.ok
       \/ query.kind \in {"Load", "Fence"}
       \/ query.addr \notin 0 .. (Len(sh) - 1)
    THEN sh
    ELSE CASE query.kind = "Store" -> [sh EXCEPT ![query.addr + 1] = query.value]
           [] query.kind = "Cas" ->
                IF sh[query.addr + 1] = query.expected
                THEN [sh EXCEPT ![query.addr + 1] = query.new_value]
                ELSE sh
           [] query.kind = "Fai" ->
                [sh EXCEPT ![query.addr + 1] = (sh[query.addr + 1] + 1) % (MaxWord + 1)]

----------------------------------------------------------------------------
(* The programs of the run *)

\* arithmetic: Set and every BinOp
ProgArith ==
    << CodeInstruction(Some("L0"), Set("R0", 1)),
       CodeInstruction(None, Bop("R2", "Add", "R0", "R1")),
       CodeInstruction(None, Bop("R2", "Sub", "R0", "R1")),
       CodeInstruction(None, Bop("R2", "Mul", "R0", "R1")),
       CodeInstruction(None, Bop("R2", "Div", "R0", "R1")) >>

\* control: a forward branch, a branch to a label no instruction carries,
\* a backward branch
ProgBranch ==
    << CodeInstruction(Some("L0"), Branch("R0", "L1")),
       CodeInstruction(None, Branch("R1", "L2")),
       CodeInstruction(Some("L1"), Branch("R1", "L0")) >>

\* memory: every query kind but Cas, the writes ahead of the Load
ProgMem ==
    << CodeInstruction(None, Store("Rel", "R0", "R1")),
       CodeInstruction(None, Fai("SeqCst", "R0", "R1")),
       CodeInstruction(None, Load("Acq", "R0", "R1")),
       CodeInstruction(None, Fence("Rlx")) >>

ProgCas ==
    << CodeInstruction(None, Cas("RelAcq", "R0", "R1", "R2")) >>

\* the second thread of a run without memory traffic
ProgIdle ==
    << CodeInstruction(None, Set("R0", 2)) >>

\* the second thread of a run with memory traffic
ProgOther ==
    << CodeInstruction(None, Fai("Rlx", "R0", "R0")) >>

\* a fence of every access mode
ProgFences ==
    << CodeInstruction(None, Fence("SeqCst")),
       CodeInstruction(None, Fence("Rel")),
       CodeInstruction(None, Fence("Acq")),
       CodeInstruction(None, Fence("RelAcq")),
       CodeInstruction(None, Fence("Rlx")) >>

\* the runs: the programs of tid 0 and tid 1
Runs ==
    { << ProgArith, ProgIdle >>, << ProgBranch, ProgIdle >>,
      << ProgMem, ProgOther >>, << ProgCas, ProgOther >>,
      << ProgFences, ProgIdle >> }

\* the memory at the start of a run
InitMem == << 0, 0 >>

\* the names the driver may pass to set_register, get_register, goto_label
RegisterNames == {"R0", "R1", "R2"}
LabelNames == {"L0", "L1", "L2"}

----------------------------------------------------------------------------
(* State *)

\* threads : Threads::threads, the ThreadState of each tid (tid t at t + 1)
\* mem     : GlobalMemory::mem (address a at a + 1)
\* pending : the MemoryQuery a step returned and the driver has yet to
\*           dispatch, with the tid of the thread that issued it
\* last    : the last call made and what it returned
\* shadow  : the reference memory

Tids == 0 .. (Len(threads) - 1)

Halted == ~last.res.ok /\ last.res.err.kind = "Panic"

Call(op, tid, arg, res) == [op |-> op, tid |-> tid, arg |-> arg, res |-> res]

Init ==
    /\ \E programs \in Runs :
         threads = [t \in 1 .. Len(programs) |-> New(programs[t]).val]
    /\ mem = InitMem
    /\ shadow = mem
    /\ pending = None
    /\ last = Call("init", 0, Unit, Ok(Unit))

\* CallStep where a Store instruction writes the cell itself instead of
\* leaving the write to the memory subsystem
CallStepEager(tid) ==
    /\ ~Halted /\ pending = None
    /\ LET r == Step(threads[tid + 1])
           stepped == [threads EXCEPT ![tid + 1] = r.st]
           query == IF r.res.ok /\ IsSome(r.res.val) THEN r.res.val ELSE None
       IN  /\ threads' = stepped
           /\ mem' = IF IsSome(query) /\ Unwrap(query).kind = "Store"
                     THEN ServeStore(tid, Unwrap(query), stepped, mem).mem
                     ELSE mem
           /\ pending' = IF IsSome(query)
                         THEN Some(ThreadRequest(tid, Unwrap(query)))
                         ELSE None
           /\ last' = Call("step", tid, Unit, r.res)
    /\ UNCHANGED shadow

\* the driver advances thread tid by one instruction
CallStep(tid) ==
    /\ ~Halted /\ pending = None
    /\ LET r == Step(threads[tid + 1])
       IN  /\ threads' = [threads EXCEPT ![tid + 1] = r.st]
           /\ pending' = IF r.res.ok /\ IsSome(r.res.val)
                         THEN Some(ThreadRequest(tid, Unwrap(r.res.val)))
                         ELSE None
           /\ last' = Call("step", tid, Unit, r.res)
    /\ UNCHANGED << mem, shadow >>

CallSetRegister(tid, register, val) ==
    /\ ~Halted /\ pending = None
    /\ LET r == SetRegister(threads[tid + 1], register, val)
       IN  /\ threads' = [threads EXCEPT ![tid + 1] = r.st]
           /\ last' = Call("set_register", tid, << register, val >>, r.res)
    /\ UNCHANGED << mem, shadow, pending >>

CallGetRegister(tid, register) ==
    /\ ~Halted /\ pending = None
    /\ last' = Call("get_register", tid, << register >>, GetRegister(threads[tid + 1], register))
    /\ UNCHANGED << threads, mem, shadow, pending >>

CallGotoLabel(tid, label) ==
    /\ ~Halted /\ pending = None
    /\ LET r == GotoLabel(threads[tid + 1], label)
       IN  /\ threads' = [threads EXCEPT ![tid + 1] = r.st]
           /\ last' = Call("goto_label", tid, << label >>, r.res)
    /\ UNCHANGED << mem, shadow, pending >>

\* the driver hands the pending query to ScMemory::execute_step, tagged tid
Dispatch(tid) ==
    /\ ~Halted /\ pending # None
    /\ \E overflow_checks \in BOOLEAN :
         LET query == Unwrap(pending).query
             r == ExecuteStep(ThreadRequest(tid, query), threads, mem, overflow_checks)
         IN  /\ threads' = r.threads
             /\ mem' = r.mem
             /\ shadow' = ShadowApply(shadow, query, r.res)
             /\ last' = Call("execute_step", tid, << Unwrap(pending) >>, r.res)
    /\ pending' = None

Next ==
    \/ \E tid \in Tids : CallStep(tid)
    \/ \E tid \in Tids, register \in RegisterNames, val \in Values :
         CallSetRegister(tid, register, val)
    \/ \E tid \in Tids, register \in RegisterNames : CallGetRegister(tid, register)
    \/ \E tid \in Tids, label \in LabelNames : CallGotoLabel(tid, label)
    \/ \E tid \in 0 .. Len(threads) : Dispatch(tid)

Spec == Init /\ [][Next]_vars

----------------------------------------------------------------------------
(* ThreadState::new on candidate programs *)

CandidateLabels == {None, Some("L0"), Some("L1")}
CandidateInstructions == {Fence("SeqCst"), Branch("R0", "L0")}
CandidateCode ==
    {CodeInstruction(l, i) : l \in CandidateLabels, i \in CandidateInstructions}
CandidatePrograms ==
    UNION {[1 .. n -> CandidateCode] : n \in 0 .. MaxProgLen}

InitNew ==
    /\ threads = << >>
    /\ mem = InitMem
    /\ shadow = mem
    /\ pending = None
    /\ last = Call("init", 0, Unit, Ok(Unit))

\* the driver builds a thread from program; a failed construction leaves none
CallNew(program) ==
    /\ LET r == New(program)
       IN  /\ threads' = IF r.ok THEN << r.val >> ELSE << >>
           /\ last' = Call("new", 0, << program >>, r)
    /\ UNCHANGED << mem, shadow, pending >>

NextNew == \E program \in CandidatePrograms : CallNew(program)

SpecNew == InitNew /\ [][NextNew]_vars

----------------------------------------------------------------------------
(* The driver protocol: thread steps interleaved at will, each returned    *)
(* query dispatched, tagged with the tid of its issuer, before the next.   *)

\* [Set R0=v; Set R1=a; Store addr=R1 src=R0; Load addr=R1 dest=R2]
ProgStoreLoad(v, a) ==
    << CodeInstruction(None, Set("R0", v)),
       CodeInstruction(None, Set("R1", a)),
       CodeInstruction(None, Store("SeqCst", "R1", "R0")),
       CodeInstruction(None, Load("SeqCst", "R1", "R2")) >>

\* a second thread that writes cell 0 by Fai and Cas and reads it back
ProgRacer ==
    << CodeInstruction(None, Set("R2", 2)),
       CodeInstruction(None, Fai("SeqCst", "R0", "R1")),
       CodeInstruction(None, Cas("SeqCst", "R0", "R1", "R2")),
       CodeInstruction(None, Load("SeqCst", "R0", "R1")) >>

DriverRuns ==
    {<< ProgStoreLoad(v, a) >> : v \in Values, a \in 0 .. (Len(InitMem) - 1)}
    \cup {<< ProgStoreLoad(v, a), ProgRacer >> : v \in Values, a \in 0 .. (Len(InitMem) - 1)}

InitDriver ==
    /\ \E programs \in DriverRuns :
         threads = [t \in 1 .. Len(programs) |-> New(programs[t]).val]
    /\ mem \in [1 .. Len(InitMem) -> Values]
    /\ shadow = mem
    /\ pending = None
    /\ last = Call("init", 0, Unit, Ok(Unit))

DriverDispatch == pending # None /\ Dispatch(Unwrap(pending).tid)

NextDriver ==
    \/ \E tid \in Tids : CallStep(tid)
    \/ DriverDispatch

SpecDriver == InitDriver /\ [][NextDriver]_vars

\* the driver protocol with every thread stepped again and again and every
\* returned query dispatched
SpecLive ==
    /\ InitDriver
    /\ [][NextDriver]_vars
    /\ WF_vars(CallStep(0))
    /\ WF_vars(1 \in Tids /\ CallStep(1))
    /\ WF_vars(DriverDispatch)

----------------------------------------------------------------------------
(* Contended Fai: k threads, each issuing one Fai on the same cell, under  *)
(* the driver protocol.                                                    *)

\* [Set R0=a; Fai addr=R0 dest=R1]
ProgFai(a) ==
    << CodeInstruction(None, Set("R0", a)),
       CodeInstruction(None, Fai("SeqCst", "R0", "R1")) >>

\* 1..MaxWord threads on one in-range address
FaiRuns ==
    {[t \in 1 .. k |-> ProgFai(a)] : k \in 1 .. MaxWord, a \in 0 .. (Len(InitMem) - 1)}

\* the contended cell starts low enough for every increment to be exact
InitFai ==
    /\ \E programs \in FaiRuns :
         /\ threads = [t \in 1 .. Len(programs) |-> New(programs[t]).val]
         /\ mem \in [1 .. Len(InitMem) -> Values]
         /\ mem[programs[1][1].instruction.value + 1] + Len(programs) <= MaxWord
    /\ shadow = mem
    /\ pending = None
    /\ last = Call("init", 0, Unit, Ok(Unit))

SpecFai == InitFai /\ [][NextDriver]_vars

----------------------------------------------------------------------------
(* Properties *)

\* the thread of tid, the instruction it is about to fetch
Thread(tid) == threads[tid + 1]
AtEnd(st) == st.pc = Len(st.program)
CurInstr(st) == st.program[st.pc + 1].instruction

\* the request of the last execute_step call
LastRequest == last.arg[1]
LastQuery == LastRequest.query

\* C1: under the driver protocol every Load leaves in the issuer's dest
\* register the value last written to the address by a Store, a successful
\* Cas or a Fai in dispatch order (the initial value if none); the
\* single-thread program [Set R0=v; Set R1=a; Store R1 R0; Load R1 R2] ends
\* with R2 = v.
C1_LoadReadsLastWrite ==
    /\ (last.op = "execute_step" /\ LastQuery.kind = "Load")
         => /\ last.res.ok
            /\ last.tid = LastRequest.tid
            /\ Thread(last.tid).reg_map[LastQuery.dest] = shadow[LastQuery.addr + 1]
    /\ (Len(threads) = 1 /\ AtEnd(Thread(0)) /\ pending = None)
         => Thread(0).reg_map["R2"] = Thread(0).program[1].instruction.value

\* a run with two threads where a Load of the racer reads a value that Fai
\* or Cas wrote and that differs from the cell's initial value 0
C1_Witness ==
    /\ last.op = "execute_step" /\ LastQuery.kind = "Load"
    /\ Len(threads) = 2 /\ last.tid = 1
    /\ Thread(1).reg_map["R1"] = 2
    /\ Thread(0).pc = 0

\* C5: ThreadState::new fails with EmptyProgram on the empty program; on any
\* other program it succeeds iff no two instructions carry the same label,
\* and otherwise fails with DuplicateLabel naming a label two instructions
\* carry and the addresses of two instructions that carry it.
SameLabel(program, i, j) ==
    /\ IsSome(program[i].label)
    /\ program[i].label = program[j].label

HasDuplicateLabel(program) ==
    \E i, j \in 1 .. Len(program) : i < j /\ SameLabel(program, i, j)

C5_NewResult ==
    last.op = "new" =>
        LET program == last.arg[1]
            r == last.res
        IN  /\ Len(program) = 0 => r = Err([kind |-> "EmptyProgram"])
            /\ Len(program) > 0 => (r.ok <=> ~HasDuplicateLabel(program))
            /\ (Len(program) > 0 /\ ~r.ok) =>
                 /\ r.err.kind = "DuplicateLabel"
                 /\ r.err.first # r.err.second
                 /\ \A addr \in {r.err.first, r.err.second} :
                      /\ addr \in 0 .. (Len(program) - 1)
                      /\ program[addr + 1].label = Some(r.err.label)

\* a program of three instructions whose last repeats a label
C5_Witness ==
    /\ last.op = "new" /\ ~last.res.ok
    /\ last.res.err.kind = "DuplicateLabel"
    /\ last.res.err.first = 2

\* C3: the program counter of every thread always satisfies
\* 0 <= pc <= program length.
C3_PcInRange ==
    \A tid \in Tids : Thread(tid).pc \in 0 .. Len(Thread(tid).program)

\* a thread of a program of several instructions was stepped at its end
C3_Witness ==
    /\ last.op = "step" /\ ~last.res.ok
    /\ last.res.err.kind = "PcOutOfRange"
    /\ AtEnd(Thread(last.tid))
    /\ Len(Thread(last.tid).program) > 1

\* C4: a thread starts with pc = 0 and a register map whose keys are exactly
\* the registers its program names, each 0; the key set never changes.
RegisterFields == {"dest", "src", "src_l", "src_r", "addr", "expected", "new_value"}

NamedRegisters(program) ==
    UNION {{program[k].instruction[f] :
              f \in (DOMAIN program[k].instruction) \cap RegisterFields} :
           k \in 1 .. Len(program)}

C4_RegisterKeys ==
    \A tid \in Tids :
        /\ DOMAIN Thread(tid).reg_map = NamedRegisters(Thread(tid).program)
        /\ last.op = "init" =>
             /\ Thread(tid).pc = 0
             /\ \A register \in DOMAIN Thread(tid).reg_map :
                  Thread(tid).reg_map[register] = 0

\* the three-register thread after writes to its registers and a Fai delivery
C4_Witness ==
    /\ last.op = "execute_step" /\ last.res.ok
    /\ LastQuery.kind = "Fai"
    /\ Cardinality(DOMAIN Thread(0).reg_map) = 3
    /\ Thread(0).reg_map["R2"] # 0

\* the call that made this transition
StepBy(tid) == last'.op = "step" /\ last'.tid = tid
ExecBy(tid) == pending # None /\ last'.op = "execute_step" /\ last'.tid = tid
PendingQuery == Unwrap(pending).query

\* C2: a step of thread t leaves every other thread and every memory cell
\* as they were, whatever the instruction and whether it succeeds or fails.
C2_StepConfined ==
    [][\A tid \in Tids :
         StepBy(tid) =>
             /\ mem' = mem
             /\ \A other \in Tids \ {tid} : threads'[other + 1] = threads[other + 1]
             /\ Len(threads') = Len(threads)]_vars

\* a Store step has returned its query while the other thread holds a
\* nonzero register and memory has been written before
C2_Witness ==
    /\ last.op = "step" /\ last.res.ok /\ pending # None
    /\ Unwrap(pending).query.kind = "Store"
    /\ Thread(1).reg_map["R0"] # 0
    /\ mem # InitMem

\* C6: a step at pc = program length fails with PcOutOfRange carrying that
\* pc and changes neither pc nor any register, so the next step meets the
\* same state.
C6_StepAtEnd ==
    [][\A tid \in Tids :
         (StepBy(tid) /\ AtEnd(Thread(tid))) =>
             /\ last'.res = Err([kind |-> "PcOutOfRange", address |-> Thread(tid).pc])
             /\ threads' = threads
             /\ mem' = mem]_vars

\* the second thread was stepped at the end of its program
C6_Witness ==
    /\ last.op = "step" /\ last.tid = 1 /\ ~last.res.ok
    /\ last.res.err = [kind |-> "PcOutOfRange", address |-> Len(Thread(1).program)]
    /\ Thread(1).pc = Len(Thread(1).program)

\* C7: a step of Branch{src,label} at address a with R[src] = 0 leaves
\* pc = a + 1; with R[src] # 0 and label bound it leaves pc at the address
\* of the instruction that carries the label; neither changes a register nor
\* returns a query.
C7_Branch ==
    [][\A tid \in Tids :
         (StepBy(tid) /\ ~AtEnd(Thread(tid)) /\ CurInstr(Thread(tid)).kind = "Branch") =>
             LET st == Thread(tid)
                 i == CurInstr(st)
                 after == threads'[tid + 1]
             IN  /\ st.reg_map[i.src] = 0 =>
                      /\ after.pc = st.pc + 1
                      /\ after.reg_map = st.reg_map
                      /\ last'.res = Ok(None) /\ pending' = None
                 /\ (st.reg_map[i.src] # 0 /\ i.label \in DOMAIN st.label_map) =>
                      /\ after.pc = st.label_map[i.label]
                      /\ st.program[after.pc + 1].label = Some(i.label)
                      /\ after.reg_map = st.reg_map
                      /\ last'.res = Ok(None) /\ pending' = None]_vars

\* the backward branch of the control program was taken: a successful step
\* left pc at address 0
C7_Witness ==
    /\ last.op = "step" /\ last.tid = 0 /\ last.res.ok
    /\ Thread(0).program = ProgBranch
    /\ Thread(0).pc = 0

\* C8: Bop fails with Overflow{l,r,op} iff Add or Mul leaves the word range,
\* with Underflow{l,r,Sub} iff l < r, with DivisionByZero iff r = 0, and
\* then changes no register; otherwise dest gets the exact result (the
\* truncated quotient for Div) and no other register changes.
BopFails(op, l, r) ==
    CASE op = "Add" -> l + r >= MaxWord + 1
      [] op = "Mul" -> l * r >= MaxWord + 1
      [] op = "Sub" -> l < r
      [] op = "Div" -> r = 0

BopError(op, l, r) ==
    CASE op \in {"Add", "Mul"} -> [kind |-> "Overflow", l |-> l, r |-> r, op |-> op]
      [] op = "Sub" -> [kind |-> "Underflow", l |-> l, r |-> r, op |-> op]
      [] op = "Div" -> [kind |-> "DivisionByZero"]

BopExact(op, l, r, val) ==
    CASE op = "Add" -> val = l + r
      [] op = "Mul" -> val = l * r
      [] op = "Sub" -> val + r = l
      [] op = "Div" -> val * r <= l /\ l < (val + 1) * r

C8_BopChecked ==
    [][\A tid \in Tids :
         (StepBy(tid) /\ ~AtEnd(Thread(tid)) /\ CurInstr(Thread(tid)).kind = "Bop") =>
             LET st == Thread(tid)
                 i == CurInstr(st)
                 l == st.reg_map[i.src_l]
                 r == st.reg_map[i.src_r]
                 after == threads'[tid + 1]
             IN  IF BopFails(i.binop, l, r)
                 THEN /\ last'.res = Err([kind |-> "BinOpError", binop |-> i.binop,
                                          err |-> BopError(i.binop, l, r)])
                      /\ after.reg_map = st.reg_map
                 ELSE /\ last'.res = Ok(None)
                      /\ after.reg_map[i.dest] \in Values
                      /\ BopExact(i.binop, l, r, after.reg_map[i.dest])
                      /\ \A register \in (DOMAIN st.reg_map) \ {i.dest} :
                           after.reg_map[register] = st.reg_map[register]
                      /\ DOMAIN after.reg_map = DOMAIN st.reg_map]_vars

\* a Mul of the largest word by itself has overflowed
C8_Witness ==
    /\ last.op = "step" /\ ~last.res.ok
    /\ last.res.err.kind = "BinOpError"
    /\ last.res.err.err = [kind |-> "Overflow", l |-> MaxWord, r |-> MaxWord, op |-> "Mul"]

\* C9: an SC Fai from a valid tid on an in-range address whose cell holds v,
\* with dest bound, leaves v in dest and v + 1 in the cell, for every word v
\* (the largest included); nothing else changes.
C9_FaiIncrements ==
    [][\A tid \in Tids :
         (/\ ExecBy(tid)
          /\ PendingQuery.kind = "Fai"
          /\ PendingQuery.addr < Len(mem)
          /\ PendingQuery.dest \in DOMAIN Thread(tid).reg_map) =>
             LET query == PendingQuery
                 v == mem[query.addr + 1]
             IN  /\ threads' =
                      [threads EXCEPT ![tid + 1].reg_map[query.dest] = v]
                 /\ mem' = [mem EXCEPT ![query.addr + 1] = v + 1]]_vars

\* the same below the largest word, where the increment is exact
C9_FaiBelowMax ==
    [][\A tid \in Tids :
         (/\ ExecBy(tid)
          /\ PendingQuery.kind = "Fai"
          /\ PendingQuery.addr < Len(mem)
          /\ PendingQuery.dest \in DOMAIN Thread(tid).reg_map
          /\ mem[PendingQuery.addr + 1] < MaxWord) =>
             LET query == PendingQuery
                 v == mem[query.addr + 1]
             IN  /\ threads' =
                      [threads EXCEPT ![tid + 1].reg_map[query.dest] = v]
                 /\ mem' = [mem EXCEPT ![query.addr + 1] = v + 1]
                 /\ last'.res = Ok(Unit)]_vars

\* C10: an SC Cas from a valid tid on an in-range address returns success
\* whether or not the cell equals expected; the cell becomes new_value in
\* the first case and is kept in the second; no other cell, no register and
\* no pc changes.
C10_CasSilent ==
    [][\A tid \in Tids :
         (/\ ExecBy(tid)
          /\ PendingQuery.kind = "Cas"
          /\ PendingQuery.addr < Len(mem)) =>
             LET query == PendingQuery
                 v == mem[query.addr + 1]
             IN  /\ last'.res = Ok(Unit)
                 /\ mem' = [mem EXCEPT ![query.addr + 1] =
                              IF v = query.expected THEN query.new_value ELSE v]
                 /\ threads' = threads]_vars

\* a Cas whose expected value differed from the cell returned success and
\* the cell does not hold new_value
C10_Witness ==
    /\ last.op = "execute_step" /\ last.res.ok
    /\ LastQuery.kind = "Cas"
    /\ LastQuery.addr < Len(mem)
    /\ LastQuery.expected # LastQuery.new_value
    /\ mem[LastQuery.addr + 1] \notin {LastQuery.expected, LastQuery.new_value}

\* C11: an SC Store, Load, Cas or Fai from a valid tid whose address is not
\* in 0..len fails with AddressOutOfRange carrying the address and changes
\* no cell, no register and no pc; the length of memory never changes.
C11_AddressOutOfRange ==
    [][/\ Len(mem') = Len(mem)
       /\ \A tid \in Tids :
            (/\ ExecBy(tid)
             /\ PendingQuery.kind \in {"Store", "Load", "Cas", "Fai"}
             /\ PendingQuery.addr \notin 0 .. (Len(mem) - 1)) =>
                /\ last'.res = Err([kind |-> "AddressOutOfRange",
                                    addr |-> PendingQuery.addr])
                /\ mem' = mem
                /\ threads' = threads]_vars

\* a Fai on the first address past the store has failed, in a run whose
\* memory had been written
C11_Witness ==
    /\ last.op = "execute_step" /\ ~last.res.ok
    /\ last.res.err = [kind |-> "AddressOutOfRange", addr |-> Len(mem)]
    /\ LastQuery.kind = "Fai"
    /\ last.tid \in Tids
    /\ mem # InitMem

\* C12: an SC thread request whose tid is not in 0..n fails with BadTid
\* carrying the tid, for every query kind and any address, and changes no
\* cell and no thread.
C12_BadTid ==
    [][\A tid \in 0 .. Len(threads) :
         (ExecBy(tid) /\ tid \notin Tids) =>
             /\ last'.res = Err([kind |-> "BadTid", tid |-> tid])
             /\ mem' = mem
             /\ threads' = threads]_vars

\* a Store to an address past the store was sent with the tid n
C12_Witness ==
    /\ last.op = "execute_step" /\ ~last.res.ok
    /\ last.res.err = [kind |-> "BadTid", tid |-> Len(threads)]
    /\ LastQuery.kind = "Store"
    /\ LastQuery.addr = Len(mem)

\* C13: set_register and get_register with a name no instruction of the
\* program references fail with UnboundRegister naming it and change
\* nothing; with a referenced name set_register makes that register, and
\* only it, hold the value, and get_register returns the current value.
C13_RegisterAccess ==
    [][\A tid \in Tids :
         LET st == Thread(tid)
             register == last'.arg[1]
             unbound == Err([kind |-> "UnboundRegister", register |-> register])
         IN  /\ (last'.op = "set_register" /\ last'.tid = tid) =>
                  /\ mem' = mem
                  /\ IF register \in NamedRegisters(st.program)
                     THEN /\ last'.res = Ok(Unit)
                          /\ threads' = [threads EXCEPT
                                           ![tid + 1].reg_map[register] = last'.arg[2]]
                     ELSE /\ last'.res = unbound
                          /\ threads' = threads
             /\ (last'.op = "get_register" /\ last'.tid = tid) =>
                  /\ mem' = mem
                  /\ threads' = threads
                  /\ IF register \in NamedRegisters(st.program)
                     THEN last'.res = Ok(st.reg_map[register])
                     ELSE last'.res = unbound]_vars

\* set_register on the second thread with a name only the first thread's
\* program uses has failed
C13_Witness ==
    /\ last.op = "set_register" /\ last.tid = 1
    /\ last.res = Err([kind |-> "UnboundRegister", register |-> "R1"])
    /\ "R1" \in DOMAIN Thread(0).reg_map
    /\ Thread(0).reg_map["R1"] # 0

\* C14: a step of Load, Store, Cas, Fai or Fence returns a query of the same
\* kind and mode whose address and values are those its operand registers
\* hold at the step (dest is the instruction's dest name), writes no
\* register and advances pc by one; a step of Set, Bop or Branch returns no
\* query.
QueryOf(i, st) ==
    CASE i.kind = "Load" ->
           [kind |-> "Load", addr |-> st.reg_map[i.addr], dest |-> i.dest, mode |-> i.mode]
      [] i.kind = "Store" ->
           [kind |-> "Store", addr |-> st.reg_map[i.addr], value |-> st.reg_map[i.src],
            mode |-> i.mode]
      [] i.kind = "Cas" ->
           [kind |-> "Cas", addr |-> st.reg_map[i.addr],
            expected |-> st.reg_map[i.expected], new_value |-> st.reg_map[i.new_value],
            mode |-> i.mode]
      [] i.kind = "Fai" ->
           [kind |-> "Fai", addr |-> st.reg_map[i.addr], dest |-> i.dest, mode |-> i.mode]
      [] i.kind = "Fence" -> [kind |-> "Fence", mode |-> i.mode]

C14_StepReturnsQuery ==
    [][\A tid \in Tids :
         (StepBy(tid) /\ ~AtEnd(Thread(tid))) =>
             LET st == Thread(tid)
                 i == CurInstr(st)
             IN  IF i.kind \in {"Load", "Store", "Cas", "Fai", "Fence"}
                 THEN /\ last'.res = Ok(Some(QueryOf(i, st)))
                      /\ pending' = Some([tid |-> tid, query |-> QueryOf(i, st)])
                      /\ threads' = [threads EXCEPT ![tid + 1].pc = st.pc + 1]
                 ELSE /\ pending' = None
                      /\ last'.res.ok => last'.res = Ok(None)]_vars

\* a Cas step returned a query with distinct address, expected and new value
C14_Witness ==
    /\ last.op = "step" /\ last.res.ok /\ pending # None
    /\ Unwrap(pending).query =
         [kind |-> "Cas", addr |-> 0, expected |-> 1, new_value |-> 2, mode |-> "RelAcq"]
    /\ Thread(last.tid).reg_map = [R0 |-> 0, R1 |-> 1, R2 |-> 2]

\* C15: an SC Store from a valid tid to an in-range address a succeeds and
\* leaves the query's value in M[a] at once; no other cell, no register and
\* no pc changes.
C15_Store ==
    [][\A tid \in Tids :
         (/\ ExecBy(tid)
          /\ PendingQuery.kind = "Store"
          /\ PendingQuery.addr < Len(mem)) =>
             /\ last'.res = Ok(Unit)
             /\ mem' = [mem EXCEPT ![PendingQuery.addr + 1] = PendingQuery.value]
             /\ threads' = threads]_vars

\* a Store has put the largest word in the last cell while the first cell
\* holds another value
C15_Witness ==
    /\ last.op = "execute_step" /\ last.res.ok
    /\ LastQuery.kind = "Store"
    /\ LastQuery.addr = Len(mem) - 1
    /\ LastQuery.value = MaxWord
    /\ mem[Len(mem)] = MaxWord
    /\ mem[1] = 1

\* C16: an SC Load from a valid tid t of an in-range address a, with dest
\* bound in thread t, succeeds and leaves M[a] in thread t's dest; no cell,
\* no other register, no other thread and no pc changes.
C16_Load ==
    [][\A tid \in Tids :
         (/\ ExecBy(tid)
          /\ PendingQuery.kind = "Load"
          /\ PendingQuery.addr < Len(mem)
          /\ PendingQuery.dest \in DOMAIN Thread(tid).reg_map) =>
             /\ last'.res = Ok(Unit)
             /\ mem' = mem
             /\ threads' = [threads EXCEPT ![tid + 1].reg_map[PendingQuery.dest] =
                              mem[PendingQuery.addr + 1]]]_vars

\* a Load of cell 1 has delivered the largest word to its issuer, whose
\* address register holds 1
C16_Witness ==
    /\ last.op = "execute_step" /\ last.res.ok
    /\ LastQuery.kind = "Load"
    /\ last.tid = LastRequest.tid
    /\ LastQuery.addr = 1
    /\ mem[2] = MaxWord
    /\ Thread(last.tid).reg_map[LastQuery.dest] = MaxWord

\* C17: an SC Fence from a valid tid returns success and changes no cell,
\* no register and no pc, whatever its access mode.
C17_Fence ==
    [][\A tid \in Tids :
         (ExecBy(tid) /\ PendingQuery.kind = "Fence") =>
             /\ PendingQuery.mode \in AccessMode
             /\ last'.res = Ok(Unit)
             /\ mem' = mem
             /\ threads' = threads]_vars

\* a relaxed fence was served in a run whose memory had been written
C17_Witness ==
    /\ last.op = "execute_step" /\ last.res.ok
    /\ last.tid \in Tids
    /\ LastQuery = [kind |-> "Fence", mode |-> "Rlx"]
    /\ mem # InitMem

\* the cell the threads of SpecFai contend on
FaiCell == Thread(0).program[1].instruction.value + 1

\* the threads whose Fai has been served
FaiDelivered ==
    {tid \in Tids : AtEnd(Thread(tid)) /\ pending # Some(ThreadRequest(tid, QFai(FaiCell - 1, "R1", "SeqCst")))}

\* the contended cell less one per served Fai
FaiBase == mem[FaiCell] - Cardinality(FaiDelivered)

\* C18: when k threads each issue one Fai on the same in-range cell holding
\* v, with v + k a word and no other write to the cell, then in every order
\* of dispatch each request succeeds, the values delivered so far are
\* exactly v, v+1, ... (one per served request, pairwise distinct) and the
\* cell holds v plus the number of served requests, hence v + k at the end.
C18_FaiAtomic ==
    [][/\ FaiBase' = FaiBase
       /\ (last'.op = "execute_step" => last'.res.ok)
       /\ LET delivered == {Thread(tid).reg_map["R1"] : tid \in FaiDelivered}
              n == Cardinality(FaiDelivered)
          IN  /\ Cardinality(delivered) = n
              /\ delivered = FaiBase .. (FaiBase + n - 1)]_vars

\* two threads have been served, the second before the first, and the cell
\* is one above the later delivery
C18_Witness ==
    /\ Len(threads) = 2
    /\ FaiDelivered = {0, 1}
    /\ Thread(0).reg_map["R1"] = Thread(1).reg_map["R1"] + 1
    /\ mem[FaiCell] = Thread(0).reg_map["R1"] + 1

\* the error execute_step wraps a failed register write of thread tid in
UnboundDest(tid, dest) ==
    Err([kind |-> "ThreadStateError", tid |-> tid,
         error |-> [kind |-> "UnboundRegister", register |-> dest]])

\* C19 as stated: an SC Load or Fai from a valid tid whose dest is not bound
\* in that thread fails with ThreadStateError carrying the tid and the
\* UnboundRegister error, whatever the address, and changes no cell and no
\* thread.
C19_UnboundDestAnyAddress ==
    [][\A tid \in Tids :
         (/\ ExecBy(tid)
          /\ PendingQuery.kind \in {"Load", "Fai"}
          /\ PendingQuery.dest \notin DOMAIN Thread(tid).reg_map) =>
             /\ last'.res = UnboundDest(tid, PendingQuery.dest)
             /\ mem' = mem
             /\ threads' = threads]_vars

\* C19: an SC Load or Fai from a valid tid on an in-range address whose dest
\* is not bound in that thread fails with ThreadStateError carrying the tid
\* and the UnboundRegister error, and changes no cell (the addressed cell is
\* not incremented) and no thread.
C19_UnboundDest ==
    [][\A tid \in Tids :
         (/\ ExecBy(tid)
          /\ PendingQuery.kind \in {"Load", "Fai"}
          /\ PendingQuery.addr < Len(mem)
          /\ PendingQuery.dest \notin DOMAIN Thread(tid).reg_map) =>
             /\ last'.res = UnboundDest(tid, PendingQuery.dest)
             /\ mem' = mem
             /\ threads' = threads]_vars

\* a Fai on an in-range address was handed to a thread that does not bind
\* its dest and failed, in a run whose memory had been written
C19_Witness ==
    /\ last.op = "execute_step" /\ last.tid \in Tids
    /\ LastQuery.kind = "Fai"
    /\ LastQuery.addr < Len(mem)
    /\ LastQuery.dest \notin DOMAIN Thread(last.tid).reg_map
    /\ last.res = UnboundDest(last.tid, LastQuery.dest)
    /\ mem # InitMem

\* the step of instruction i in state st jumps
TakenBranch(i, st) == i.kind = "Branch" /\ st.reg_map[i.src] # 0

\* C20: a successful step of the instruction at address a, other than a
\* taken Branch, leaves pc = a + 1; a step whose instruction fails (a Bop
\* arithmetic error, a taken Branch to an unbound label) returns the error
\* with every register unchanged and pc = a + 1 all the same, so the next
\* step fetches the instruction after the failed one.
C20_PcAdvancedFirst ==
    [][\A tid \in Tids :
         (StepBy(tid) /\ ~AtEnd(Thread(tid))) =>
             LET st == Thread(tid)
                 i == CurInstr(st)
                 after == threads'[tid + 1]
             IN  /\ (last'.res.ok /\ ~TakenBranch(i, st)) => after.pc = st.pc + 1
                 /\ ~last'.res.ok =>
                      /\ \/ /\ i.kind = "Bop"
                            /\ last'.res.err.kind = "BinOpError"
                         \/ /\ TakenBranch(i, st)
                            /\ last'.res.err = [kind |-> "UnboundLabel", label |-> i.label]
                      /\ after.reg_map = st.reg_map
                      /\ after.pc = st.pc + 1
                      /\ after.pc = Len(st.program) \/ CurInstr(after) = st.program[st.pc + 2].instruction]_vars

\* the branch at address 1 of the control program failed on its unbound
\* label and pc is 2
C20_Witness ==
    /\ last.op = "step" /\ last.tid = 0 /\ ~last.res.ok
    /\ last.res.err.kind = "UnboundLabel"
    /\ Thread(0).program = ProgBranch
    /\ Thread(0).pc = 2

\* some instruction of the program carries the label
Carried(program, label) ==
    \E addr \in 1 .. Len(program) : program[addr].label = Some(label)

\* C21: ThreadState::new succeeds on a program with a Branch to a label no
\* instruction carries; the step of that Branch fails with UnboundLabel
\* naming the label iff R[src] # 0 and falls through to the next address
\* when R[src] = 0; goto_label of a bound label sets pc to the address of
\* the instruction carrying it, goto_label of an unbound label fails with
\* UnboundLabel and leaves pc as it was.
C21_LabelsUnchecked ==
    [][\A tid \in Tids :
         LET st == Thread(tid)
             after == threads'[tid + 1]
         IN  /\ (/\ StepBy(tid) /\ ~AtEnd(st)
                 /\ CurInstr(st).kind = "Branch"
                 /\ ~Carried(st.program, CurInstr(st).label)) =>
                    LET i == CurInstr(st)
                    IN  /\ New(st.program).ok
                        /\ st.reg_map[i.src] # 0 <=>
                             last'.res = Err([kind |-> "UnboundLabel", label |-> i.label])
                        /\ st.reg_map[i.src] = 0 =>
                             /\ last'.res = Ok(None)
                             /\ after.pc = st.pc + 1
             /\ (last'.op = "goto_label" /\ last'.tid = tid) =>
                    LET label == last'.arg[1]
                    IN  IF Carried(st.program, label)
                        THEN /\ last'.res = Ok(Unit)
                             /\ st.program[after.pc + 1].label = Some(label)
                             /\ after = [st EXCEPT !.pc = after.pc]
                        ELSE /\ last'.res = Err([kind |-> "UnboundLabel", label |-> label])
                             /\ after = st]_vars

\* the branch to the uncarried label L2 at address 1 of the control program
\* was stepped with its register at 0 and fell through to address 2
C21_Witness ==
    /\ last.op = "step" /\ last.tid = 0 /\ last.res = Ok(None)
    /\ Thread(0).program = ProgBranch
    /\ ~Carried(ProgBranch, "L2")
    /\ Thread(0).reg_map["R0"] = 0 /\ Thread(0).reg_map["R1"] = 0
    /\ Thread(0).pc = 2

\* no instruction of the program is a Branch
NoBranch(program) ==
    \A addr \in 1 .. Len(program) : program[addr].instruction.kind # "Branch"

\* C22: under the driver protocol, for a thread whose program has no
\* Branch, each successful step raises pc by exactly one; once pc is the
\* length L every step fails with PcOutOfRange and changes nothing, and the
\* thread's registers change only by a memory delivery to its tid; and when
\* the thread is scheduled fairly (the process has not aborted) pc reaches L
\* and stays there, whatever the other thread and the memory do in between.
C22_Terminates ==
    /\ [][\A tid \in Tids :
            LET st == Thread(tid)
                after == threads'[tid + 1]
            IN  NoBranch(st.program) =>
                  /\ (StepBy(tid) /\ ~AtEnd(st) /\ last'.res.ok) =>
                         after.pc = st.pc + 1
                  /\ (StepBy(tid) /\ AtEnd(st)) =>
                         /\ last'.res = Err([kind |-> "PcOutOfRange",
                                             address |-> Len(st.program)])
                         /\ after = st
                  /\ (AtEnd(st) /\ after # st) =>
                         /\ last'.op = "execute_step" /\ last'.tid = tid
                         /\ after = [st EXCEPT !.reg_map = after.reg_map]
                  /\ after.pc >= st.pc]_vars
    /\ <>[](Halted \/ AtEnd(Thread(0)))
    /\ <>[](Halted \/ (1 \in Tids => AtEnd(Thread(1))))

\* with two threads running, the first has taken its four steps, received
\* the value it loaded, and a further step of it has failed at address 4,
\* while the second is still inside its program
C22_Witness ==
    /\ Len(threads) = 2
    /\ last.op = "step" /\ last.tid = 0
    /\ last.res = Err([kind |-> "PcOutOfRange", address |-> 4])
    /\ NoBranch(Thread(0).program)
    /\ Thread(0).pc = 4
    /\ Thread(0).reg_map["R2"] = 1
    /\ Thread(1).pc \in 1 .. 3

====
